---- MODULE Spec2Model ----
(***************************************************************************)
(* A model of the CHIP-8 style execution engine of src/src/cpu.rs: the     *)
(* CPU struct (registers, program counter, memory, call stack) and the     *)
(* fetch-decode-execute loop CPU::run with its handlers add_xy, call, ret. *)
(* One step of the model is one iteration of the loop in CPU::run.         *)
(***************************************************************************)
EXTENDS Integers, Naturals, Sequences, FiniteSets, TLC

VARIABLES
    register,            \* CPU.register: [u8; 16]
    position_in_memory,  \* CPU.position_in_memory: usize
    memory,              \* CPU.memory: [u8; 4096], held as its loaded cells (see MemAt)
    stack,               \* CPU.stack: [u16; 16]
    stack_pointer,       \* CPU.stack_pointer: usize
    opcode,              \* the local `opcode` of run: the opcode last fetched
    state,               \* "Running" | "Halted" (run returned) | "Panicked" (run unwound)
    panic,               \* the panic payload that ended run, <<>> when there is none
    arm,                 \* history: what the last loop iteration did ("none" before the first)
    pre,                 \* history: the CPU as it was at the head of the last loop iteration
    return_addresses     \* history: call site + 2 of every call not yet returned from, oldest first

vars == <<register, position_in_memory, memory, stack, stack_pointer,
          opcode, state, panic, arm, pre, return_addresses>>

----------------------------------------------------------------------------
(* Sizes fixed by the CPU struct.                                          *)

RegisterLen == 16
MemoryLen == 4096
StackLen == 16

(* Bounds of the model: how many consecutive opcode slots the loader fills *)
(* from address 0, and how many sample values each seeded register draws.  *)
ProgLen == 2
NumVals == 3

----------------------------------------------------------------------------
(* Fixed-width integer arithmetic, as the code computes it.                *)

(* Bitwise and/or of the nibbles, bit by bit, tabulated once; a 16-bit     *)
(* operation is the four nibble results put back in place.                 *)
RECURSIVE AndBits(_, _)
AndBits(a, b) ==
    IF a = 0 \/ b = 0 THEN 0
    ELSE (IF a % 2 = 1 /\ b % 2 = 1 THEN 1 ELSE 0) + 2 * AndBits(a \div 2, b \div 2)

RECURSIVE OrBits(_, _)
OrBits(a, b) ==
    IF a = 0 THEN b
    ELSE IF b = 0 THEN a
    ELSE (IF a % 2 = 1 \/ b % 2 = 1 THEN 1 ELSE 0) + 2 * OrBits(a \div 2, b \div 2)

NibbleAnd == [a \in 0..15 |-> [b \in 0..15 |-> AndBits(a, b)]]
NibbleOr == [a \in 0..15 |-> [b \in 0..15 |-> OrBits(a, b)]]

Nibble(a, k) == (a \div (16 ^ k)) % 16

BitAnd(a, b) ==
    NibbleAnd[Nibble(a, 0)][Nibble(b, 0)]
    + 16 * NibbleAnd[Nibble(a, 1)][Nibble(b, 1)]
    + 256 * NibbleAnd[Nibble(a, 2)][Nibble(b, 2)]
    + 4096 * NibbleAnd[Nibble(a, 3)][Nibble(b, 3)]

BitOr(a, b) ==
    NibbleOr[Nibble(a, 0)][Nibble(b, 0)]
    + 16 * NibbleOr[Nibble(a, 1)][Nibble(b, 1)]
    + 256 * NibbleOr[Nibble(a, 2)][Nibble(b, 2)]
    + 4096 * NibbleOr[Nibble(a, 3)][Nibble(b, 3)]

Shl16(a, n) == (a * (2 ^ n)) % 65536
Shr(a, n) == a \div (2 ^ n)
AsU16(n) == n % 65536
AsU8(n) == n % 256

\* u8::overflowing_add: the wrapped sum and whether it wrapped
overflowing_add(a, b) == <<(a + b) % 256, a + b > 255>>

----------------------------------------------------------------------------
(* Panic payloads.                                                         *)

NoPanic == <<>>
IndexOutOfBounds(len, index) == <<"index out of bounds", len, index>>
StackOverflowMsg == <<"Stack overflow">>
NotYetImplemented(op) == <<"not yet implemented: opcode", op>>

----------------------------------------------------------------------------
(* CPU::read_opcode. The two indexing expressions are bounds-checked by    *)
(* the language, memory[p] first: the result is the panic or the opcode.   *)

\* read_opcode over unchecked indexing: a cell past the end reads as 0
read_opcode_unchecked(mem, p) ==
    [panic |-> NoPanic,
     val |-> BitOr(Shl16(IF p \in DOMAIN mem THEN mem[p] ELSE 0, 8),
                   IF p + 1 \in DOMAIN mem THEN mem[p + 1] ELSE 0)]

(* memory[a] for an index a < 4096. The variable holds the cells the       *)
(* loader writes; every other cell keeps the 0 of `memory: [0; 4096]`.     *)
MemAt(mem, a) == IF a \in DOMAIN mem THEN mem[a] ELSE 0

\* read_opcode that takes the second byte for the high one
read_opcode_low_byte_first(mem, p) ==
    IF p >= MemoryLen
    THEN [panic |-> IndexOutOfBounds(MemoryLen, p), val |-> 0]
    ELSE IF p + 1 >= MemoryLen
    THEN [panic |-> IndexOutOfBounds(MemoryLen, p + 1), val |-> 0]
    ELSE [panic |-> NoPanic,
          val |-> BitOr(Shl16(MemAt(mem, p + 1), 8), MemAt(mem, p))]

read_opcode(mem, p) ==
    IF p >= MemoryLen
    THEN [panic |-> IndexOutOfBounds(MemoryLen, p), val |-> 0]
    ELSE IF p + 1 >= MemoryLen
    THEN [panic |-> IndexOutOfBounds(MemoryLen, p + 1), val |-> 0]
    ELSE [panic |-> NoPanic,
          val |-> BitOr(Shl16(MemAt(mem, p), 8), MemAt(mem, p + 1))]

\* the nibble extraction with x shifted by 4 instead of 8
Decode_x_shifted_by_4(op) ==
    [c   |-> AsU8(Shr(BitAnd(op, 61440), 12)),
     x   |-> AsU8(Shr(BitAnd(op, 3840), 4)),
     y   |-> AsU8(Shr(BitAnd(op, 240), 4)),
     d   |-> AsU8(Shr(BitAnd(op, 15), 0)),
     nnn |-> BitAnd(op, 4095)]

(* The nibble extraction of run (lines 31-39).                             *)
Decode(op) ==
    [c   |-> AsU8(Shr(BitAnd(op, 61440), 12)),
     x   |-> AsU8(Shr(BitAnd(op, 3840), 8)),
     y   |-> AsU8(Shr(BitAnd(op, 240), 4)),
     d   |-> AsU8(Shr(BitAnd(op, 15), 0)),
     nnn |-> BitAnd(op, 4095)]

\* the match with the add arm written (0x8, _, _, _)
Dispatch_add_any_d(op) ==
    LET f == Decode(op) IN
    IF f.c = 0 /\ f.x = 0 /\ f.y = 0 /\ f.d = 0 THEN "halt"
    ELSE IF f.c = 0 /\ f.x = 0 /\ f.y = 14 /\ f.d = 14 THEN "ret"
    ELSE IF f.c = 2 THEN "call"
    ELSE IF f.c = 8 THEN "add_xy"
    ELSE "todo"

\* match whose return arm takes every nonzero opcode of class 0
Dispatch_class0_returns(op) ==
    LET f == Decode(op) IN
    IF f.c = 0 /\ f.x = 0 /\ f.y = 0 /\ f.d = 0 THEN "halt"
    ELSE IF f.c = 0 THEN "ret"
    ELSE IF f.c = 2 THEN "call"
    ELSE IF f.c = 8 /\ f.d = 4 THEN "add_xy"
    ELSE "todo"

(* The match of run (lines 42-51): which arm an opcode takes.              *)
Dispatch(op) ==
    LET f == Decode(op) IN
    IF f.c = 0 /\ f.x = 0 /\ f.y = 0 /\ f.d = 0 THEN "halt"
    ELSE IF f.c = 0 /\ f.x = 0 /\ f.y = 14 /\ f.d = 14 THEN "ret"
    ELSE IF f.c = 2 THEN "call"
    ELSE IF f.c = 8 /\ f.d = 4 THEN "add_xy"
    ELSE "todo"

\* add_xy that takes a sum of exactly 255 for an overflow
add_xy_carry_at_255(reg, x, y) ==
    LET arg1 == reg[x]
        arg2 == reg[y]
        reg1 == [reg EXCEPT ![x] = (arg1 + arg2) % 256]
    IN  IF arg1 + arg2 >= 255 THEN [reg1 EXCEPT ![15] = 1] ELSE [reg1 EXCEPT ![15] = 0]

\* add_xy that writes the flag first and the sum last
add_xy_flag_first(reg, x, y) ==
    LET arg1 == reg[x]
        arg2 == reg[y]
        r    == overflowing_add(arg1, arg2)
        reg1 == IF r[2] THEN [reg EXCEPT ![15] = 1] ELSE [reg EXCEPT ![15] = 0]
    IN  [reg1 EXCEPT ![x] = r[1]]

\* add_xy that reads register x for both operands
add_xy_reads_x_twice(reg, x, y) ==
    LET arg1 == reg[x]
        arg2 == reg[x]
        r    == overflowing_add(arg1, arg2)
        reg1 == [reg EXCEPT ![x] = r[1]]
    IN  IF r[2] THEN [reg1 EXCEPT ![15] = 1] ELSE [reg1 EXCEPT ![15] = 0]

\* add_xy that also stores the sum into register y
add_xy_stores_into_y(reg, x, y) ==
    LET arg1 == reg[x]
        arg2 == reg[y]
        r    == overflowing_add(arg1, arg2)
        reg1 == [reg EXCEPT ![y] = r[1], ![x] = r[1]]
    IN  IF r[2] THEN [reg1 EXCEPT ![15] = 1] ELSE [reg1 EXCEPT ![15] = 0]

(* CPU::add_xy: the new register file.                                     *)
add_xy(reg, x, y) ==
    LET arg1 == reg[x]
        arg2 == reg[y]
        r    == overflowing_add(arg1, arg2)
        reg1 == [reg EXCEPT ![x] = r[1]]
    IN  IF r[2] THEN [reg1 EXCEPT ![15] = 1] ELSE [reg1 EXCEPT ![15] = 0]

\* call with unchecked indexing: a push at any depth goes through
call_unchecked(stk, sp, pos, addr) ==
    [panic |-> NoPanic,
     stack |-> IF sp < StackLen THEN [stk EXCEPT ![sp] = AsU16(pos)] ELSE stk,
     stack_pointer |-> sp + 1,
     position_in_memory |-> addr]

\* call that bumps the stack pointer before it stores the return address
call_increment_first(stk, sp, pos, addr) ==
    IF sp > StackLen
    THEN [panic |-> StackOverflowMsg, stack |-> stk, stack_pointer |-> sp,
          position_in_memory |-> pos]
    ELSE IF sp >= StackLen
    THEN [panic |-> IndexOutOfBounds(StackLen, sp), stack |-> stk,
          stack_pointer |-> sp + 1, position_in_memory |-> pos]
    ELSE [panic |-> NoPanic,
          stack |-> [stk EXCEPT ![sp] = AsU16(pos)],
          stack_pointer |-> sp + 1,
          position_in_memory |-> addr]

\* call that pushes the address of the call opcode itself
call_pushes_call_site(stk, sp, pos, addr) ==
    IF sp >= StackLen
    THEN [panic |-> IndexOutOfBounds(StackLen, sp), stack |-> stk,
          stack_pointer |-> sp, position_in_memory |-> pos]
    ELSE [panic |-> NoPanic,
          stack |-> [stk EXCEPT ![sp] = AsU16(pos - 2)],
          stack_pointer |-> sp + 1,
          position_in_memory |-> addr]

\* call that increments the stack pointer first and stores at the new depth
call_stores_after_increment(stk, sp, pos, addr) ==
    IF sp + 1 >= StackLen
    THEN [panic |-> IndexOutOfBounds(StackLen, sp + 1), stack |-> stk,
          stack_pointer |-> sp + 1, position_in_memory |-> pos]
    ELSE [panic |-> NoPanic,
          stack |-> [stk EXCEPT ![sp + 1] = AsU16(pos)],
          stack_pointer |-> sp + 1,
          position_in_memory |-> addr]

(* CPU::call: the panic, or the new stack, stack pointer and position.     *)
call(stk, sp, pos, addr) ==
    IF sp > StackLen
    THEN [panic |-> StackOverflowMsg, stack |-> stk, stack_pointer |-> sp,
          position_in_memory |-> pos]
    ELSE IF sp >= StackLen
    THEN [panic |-> IndexOutOfBounds(StackLen, sp), stack |-> stk,
          stack_pointer |-> sp, position_in_memory |-> pos]
    ELSE [panic |-> NoPanic,
          stack |-> [stk EXCEPT ![sp] = AsU16(pos)],
          stack_pointer |-> sp + 1,
          position_in_memory |-> addr]

\* ret that reads the top of the stack but leaves the depth as it is
ret_keeps_depth(stk, sp, pos) ==
    IF sp = 0
    THEN [panic |-> StackOverflowMsg, stack |-> stk, stack_pointer |-> sp,
          position_in_memory |-> pos]
    ELSE [panic |-> NoPanic, stack |-> stk, stack_pointer |-> sp,
          position_in_memory |-> stk[sp - 1]]

\* ret that goes back to the oldest call in progress
ret_oldest_first(stk, sp, pos) ==
    IF sp = 0
    THEN [panic |-> StackOverflowMsg, stack |-> stk, stack_pointer |-> sp,
          position_in_memory |-> pos]
    ELSE [panic |-> NoPanic, stack |-> stk, stack_pointer |-> sp - 1,
          position_in_memory |-> stk[0]]

(* CPU::ret.                                                               *)
ret(stk, sp, pos) ==
    IF sp = 0
    THEN [panic |-> StackOverflowMsg, stack |-> stk, stack_pointer |-> sp,
          position_in_memory |-> pos]
    ELSE [panic |-> NoPanic, stack |-> stk, stack_pointer |-> sp - 1,
          position_in_memory |-> stk[sp - 1]]

----------------------------------------------------------------------------
(* The loader of main.rs: a zeroed CPU, registers seeded, opcodes written  *)
(* into memory one byte at a time, high byte first.                        *)

LoadedCells ==
    { a \in 0..(MemoryLen - 1) : a < 2 * ProgLen \/ a < 8 \/ a >= MemoryLen - 2 }
ZeroMemory == [a \in LoadedCells |-> 0]
ZeroRegisters == [i \in 0..(RegisterLen - 1) |-> 0]
ZeroStack == [i \in 0..(StackLen - 1) |-> 0]

LoadOpcode(mem, addr, op) ==
    [mem EXCEPT ![addr] = op \div 256, ![addr + 1] = op % 256]

RECURSIVE LoadProgram(_, _, _)
LoadProgram(mem, addr, ops) ==
    IF ops = <<>> THEN mem
    ELSE LoadProgram(LoadOpcode(mem, addr, Head(ops)), addr + 2, Tail(ops))

(* The opcodes the enumerated programs are built from: the four supported  *)
(* shapes (with calls to the program itself, to the last opcode slot and   *)
(* to the last byte of memory, and adds that use register 0xF as operand)  *)
(* and opcodes outside the supported set.                                  *)
HaltOp == 0
RetOp == 238
Opcodes ==
    { HaltOp, RetOp,
      8192, 8194, 12286, 12287,          \* 0x2000 0x2002 0x2FFE 0x2FFF
      36612, 33012,                      \* 0x8F04 0x80F4
      4660, 32789 }                      \* 0x1234 0x8015
TopOpcodes == { RetOp, 32788 }           \* what is loaded at 0xFFE
TopAddr == MemoryLen - 2

RECURSIVE SeqsOf(_, _)
SeqsOf(S, n) ==
    IF n = 0 THEN { <<>> }
    ELSE { <<h>> \o t : h \in S, t \in SeqsOf(S, n - 1) }

Programs ==
    { LoadOpcode(LoadProgram(ZeroMemory, 0, ops), TopAddr, top) :
        ops \in SeqsOf(Opcodes, ProgLen), top \in TopOpcodes }

(* Sample register values: the extremes of u8 first.                       *)
SampleValues == <<0, 255, 1, 128, 127, 200, 100, 56>>
Vals == { SampleValues[i] : i \in 1..NumVals }

(* The add program of main.rs (lines 158-192).                             *)
MainMemory == LoadProgram(ZeroMemory, 0, <<32788, 32804, 32820, 32836>>)
MainRegisters ==
    [ZeroRegisters EXCEPT ![0] = 5, ![1] = 10, ![2] = 10, ![3] = 10, ![4] = 30]

(* A program of two nested calls and their two returns: 0x2004 at 0, a    *)
(* halt at 2, 0x2FFE at 4, a return at 6 and a return at 0xFFE.            *)
NestedMemory ==
    LoadOpcode(LoadProgram(ZeroMemory, 0, <<8196, HaltOp, 12286, RetOp>>),
               TopAddr, RetOp)

NoOpcode == 0 - 1

Snapshot ==
    [register |-> register, position_in_memory |-> position_in_memory,
     memory |-> memory, stack |-> stack, stack_pointer |-> stack_pointer,
     opcode |-> opcode]

(* Start addresses at the end of memory: the last opcode slot, the last    *)
(* byte, and the first two offsets past the buffer.                        *)
HighStarts == { MemoryLen - 2, MemoryLen - 1, MemoryLen, MemoryLen + 1 }

InitCPU(mem, reg, start) ==
    /\ memory = mem
    /\ register = reg
    /\ position_in_memory = start
    /\ stack = ZeroStack
    /\ stack_pointer = 0
    /\ opcode = NoOpcode
    /\ state = "Running"
    /\ panic = NoPanic
    /\ arm = "none"
    /\ return_addresses = <<>>
    /\ pre = [register |-> reg, position_in_memory |-> start, memory |-> mem,
              stack |-> ZeroStack, stack_pointer |-> 0, opcode |-> NoOpcode]

Init ==
    \/ \E mem \in Programs, v0 \in Vals, vF \in Vals :
          InitCPU(mem, [ZeroRegisters EXCEPT ![0] = v0, ![1] = 10, ![15] = vF], 0)
    \/ \E mem \in Programs, start \in HighStarts :
          InitCPU(mem, MainRegisters, start)
    \/ InitCPU(MainMemory, MainRegisters, 0)
    \/ InitCPU(NestedMemory, MainRegisters, 0)

(* The loader with any 16-bit opcode at address 0 and the rest of memory   *)
(* zero: every opcode is fetched, decoded and dispatched once.             *)
InitOpcodes ==
    \E op \in 0..65535 :
        InitCPU(LoadOpcode(ZeroMemory, 0, op), MainRegisters, 0)

----------------------------------------------------------------------------
(* One iteration of the loop of CPU::run, by the arm it takes.             *)

Fetched == read_opcode(memory, position_in_memory)
\* the position advanced by one byte instead of one opcode
advance_one_byte(pos) == pos + 1

advance(pos) == pos + 2

\* the arm taken without asking whether run is still in its loop
Arm_after_stop(name) ==
    LET f == Fetched IN
        /\ f.panic = NoPanic
        /\ Dispatch(f.val) = name

Arm(name) ==
    /\ state = "Running"
    /\ LET f == Fetched IN
        /\ f.panic = NoPanic
        /\ Dispatch(f.val) = name

(* The bookkeeping of the calls in progress, kept beside the CPU and never *)
(* read by it: a call that went through adds the address after its own    *)
(* opcode, a return that went through drops the newest one.                *)
Called == Append(return_addresses, position_in_memory + 2)
Returned ==
    IF return_addresses = <<>> THEN <<>>
    ELSE SubSeq(return_addresses, 1, Len(return_addresses) - 1)

\* read_opcode panics: run unwinds before the position is advanced
FetchFault ==
    /\ state = "Running"
    /\ Fetched.panic # NoPanic
    /\ state' = "Panicked"
    /\ panic' = Fetched.panic
    /\ arm' = "fault"
    /\ pre' = Snapshot
    /\ UNCHANGED <<register, position_in_memory, memory, stack, stack_pointer, opcode>>
    /\ UNCHANGED return_addresses

\* (0, 0, 0, 0) => return
Halt ==
    /\ Arm("halt")
    /\ opcode' = Fetched.val
    /\ position_in_memory' = advance(position_in_memory)
    /\ state' = "Halted"
    /\ arm' = "halt"
    /\ pre' = Snapshot
    /\ UNCHANGED <<register, memory, stack, stack_pointer, panic, return_addresses>>

\* (0, 0, 0xE, 0xE) => self.ret()
Return ==
    /\ Arm("ret")
    /\ LET r == ret(stack, stack_pointer, advance(position_in_memory)) IN
        /\ opcode' = Fetched.val
        /\ stack' = r.stack
        /\ stack_pointer' = r.stack_pointer
        /\ position_in_memory' = r.position_in_memory
        /\ panic' = r.panic
        /\ state' = IF r.panic = NoPanic THEN "Running" ELSE "Panicked"
        /\ return_addresses' = IF r.panic = NoPanic THEN Returned ELSE return_addresses
    /\ arm' = "ret"
    /\ pre' = Snapshot
    /\ UNCHANGED <<register, memory>>

\* the call arm with the return address also written into memory, at the
\* index it takes in the stack
Call_writes_memory ==
    /\ Arm("call")
    /\ LET r == call(stack, stack_pointer, advance(position_in_memory),
                     Decode(Fetched.val).nnn) IN
        /\ opcode' = Fetched.val
        /\ stack' = r.stack
        /\ stack_pointer' = r.stack_pointer
        /\ position_in_memory' = r.position_in_memory
        /\ panic' = r.panic
        /\ state' = IF r.panic = NoPanic THEN "Running" ELSE "Panicked"
        /\ return_addresses' = IF r.panic = NoPanic THEN Called ELSE return_addresses
        /\ memory' = IF r.panic = NoPanic
                      THEN [memory EXCEPT ![stack_pointer] =
                                AsU8(advance(position_in_memory))]
                      ELSE memory
    /\ arm' = "call"
    /\ pre' = Snapshot
    /\ UNCHANGED <<register>>

\* (0x2, _, _, _) => self.call(nnn)
Call ==
    /\ Arm("call")
    /\ LET r == call(stack, stack_pointer, advance(position_in_memory),
                     Decode(Fetched.val).nnn) IN
        /\ opcode' = Fetched.val
        /\ stack' = r.stack
        /\ stack_pointer' = r.stack_pointer
        /\ position_in_memory' = r.position_in_memory
        /\ panic' = r.panic
        /\ state' = IF r.panic = NoPanic THEN "Running" ELSE "Panicked"
        /\ return_addresses' = IF r.panic = NoPanic THEN Called ELSE return_addresses
    /\ arm' = "call"
    /\ pre' = Snapshot
    /\ UNCHANGED <<register, memory>>

\* (0x8, _, _, 0x4) => self.add_xy(x, y)
AddRegisters ==
    /\ Arm("add_xy")
    /\ opcode' = Fetched.val
    /\ position_in_memory' = advance(position_in_memory)
    /\ register' = add_xy(register, Decode(Fetched.val).x, Decode(Fetched.val).y)
    /\ arm' = "add_xy"
    /\ pre' = Snapshot
    /\ UNCHANGED <<memory, stack, stack_pointer, state, panic, return_addresses>>

\* _ => todo!("opcode {:04x}", opcode)
Unimplemented ==
    /\ Arm("todo")
    /\ opcode' = Fetched.val
    /\ position_in_memory' = advance(position_in_memory)
    /\ state' = "Panicked"
    /\ panic' = NotYetImplemented(Fetched.val)
    /\ arm' = "todo"
    /\ pre' = Snapshot
    /\ UNCHANGED <<register, memory, stack, stack_pointer, return_addresses>>

Next ==
    \/ FetchFault
    \/ Halt
    \/ Return
    \/ Call
    \/ AddRegisters
    \/ Unimplemented

Spec == Init /\ [][Next]_vars

\* run is a plain loop on one thread: while it is Running, the next
\* iteration is taken. Control flow does not read the registers, so the
\* runs are started on the registers of main.rs only.
InitFair ==
    \/ \E mem \in Programs : InitCPU(mem, MainRegisters, 0)
    \/ InitCPU(MainMemory, MainRegisters, 0)
    \/ InitCPU(NestedMemory, MainRegisters, 0)

FairSpec == InitFair /\ [][Next]_vars /\ WF_vars(Next)

\* the same loop started on every 16-bit opcode
SpecOpcodes == InitOpcodes /\ [][Next]_vars

----------------------------------------------------------------------------
(* Properties of the call stack.                                           *)

\* C1: in every reachable state the stack pointer stays within 0..16, the
\* capacity of the stack, whatever Calls and Returns have run.
C1_StackPointerBounded ==
    /\ stack_pointer \in 0..StackLen
    /\ DOMAIN stack = 0..(StackLen - 1)

\* a run that has nested 16 calls
C1_StackFull == stack_pointer = StackLen /\ arm = "call" /\ state = "Running"

\* C2: a Call fetched with 16 return addresses on the stack ends the run with
\* the stack-overflow panic raised by call's own capacity check, storing
\* nothing and leaving the depth at 16.
C2_CallAtCapacityIsStackOverflow ==
    (arm = "call" /\ pre.stack_pointer = StackLen) =>
        /\ state = "Panicked"
        /\ panic = StackOverflowMsg
        /\ stack = pre.stack
        /\ stack_pointer = pre.stack_pointer

\* C3: a Return fetched with an empty stack ends the run with a stack-underflow
\* panic, a payload other than the stack-overflow one, and leaves the stack
\* pointer at 0.
C3_ReturnOnEmptyIsStackUnderflow ==
    (arm = "ret" /\ pre.stack_pointer = 0) =>
        /\ state = "Panicked"
        /\ panic # StackOverflowMsg
        /\ stack_pointer = 0

\* C4: a Call that succeeds at address p with depth s, followed at once by a
\* Return fetched at its target, leaves the program counter at p + 2 and the
\* depth at s again.
C4_CallReturnSymmetry ==
    [][(arm = "call" /\ state = "Running" /\ arm' = "ret") =>
          /\ pre.stack_pointer < StackLen
          /\ opcode' = RetOp
          /\ state' = "Running"
          /\ position_in_memory' = pre.position_in_memory + 2
          /\ stack_pointer' = pre.stack_pointer]_vars

\* a Return that has just undone a nested Call
C4_ReturnedFromNestedCall ==
    /\ arm = "ret" /\ state = "Running"
    /\ pre.opcode # NoOpcode /\ pre.opcode \div 4096 = 2
    /\ stack_pointer > 0
    /\ position_in_memory > 2

----------------------------------------------------------------------------
(* Properties of AddRegisters. The operands are the values the registers   *)
(* held at the head of the iteration.                                      *)

AddX == (opcode \div 256) % 16
AddY == (opcode \div 16) % 16
AddSum == pre.register[AddX] + pre.register[AddY]
AddCarry == IF AddSum > 255 THEN 1 ELSE 0

\* C5 as stated: after any add, for every x and y, register[x] is the sum
\* mod 256 and register[0xF] is the carry.
C5_AddWrapsEveryRegister ==
    arm = "add_xy" =>
        /\ register[AddX] = AddSum % 256
        /\ register[15] = AddCarry

\* C5 amended: after any add, register[0xF] is the carry, and register[x] is
\* the sum mod 256 whenever x is not 0xF.
C5_AddWrapsAndCarries ==
    arm = "add_xy" =>
        /\ AddX # 15 => register[AddX] = AddSum % 256
        /\ register[15] = AddCarry

\* an add into a register other than 0xF that overflowed
C5_AddOverflowed ==
    /\ arm = "add_xy" /\ AddX # 15
    /\ AddSum > 255 /\ register[AddX] = AddSum - 256 /\ register[AddX] > 0

\* C6: on every add, also with x = 0xF or y = 0xF, register[0xF] ends as 1 or
\* 0 by whether the sum of the operands as read before the add passed 255.
C6_CarryWrittenLast ==
    arm = "add_xy" =>
        /\ register[15] \in {0, 1}
        /\ (register[15] = 1) <=> (pre.register[AddX] + pre.register[AddY] > 255)
        /\ \A i \in 0..(RegisterLen - 1) :
              (i # AddX /\ i # 15) => register[i] = pre.register[i]

\* an add into register 0xF whose wrapped sum was overwritten by the flag
C6_SumOverwrittenByFlag ==
    /\ arm = "add_xy" /\ AddX = 15
    /\ AddSum % 256 # register[15]
    /\ AddSum % 256 > 1

----------------------------------------------------------------------------
(* Properties of the loop: halting and the fatal conditions.               *)

\* the last iteration fetched `opcode` and dispatched it
Executed == arm \notin {"none", "fault"}

Supported(op) ==
    \/ op = 0
    \/ op = 238
    \/ op \div 4096 = 2
    \/ (op \div 4096 = 8 /\ op % 16 = 4)

\* C7 as stated: the iteration that fetches 0x0000 halts and leaves registers,
\* memory, stack, stack pointer and program counter as they were.
C7_HaltChangesNothing ==
    (Executed /\ opcode = 0) =>
        /\ state = "Halted"
        /\ register = pre.register
        /\ memory = pre.memory
        /\ stack = pre.stack
        /\ stack_pointer = pre.stack_pointer
        /\ position_in_memory = pre.position_in_memory

\* C7 amended: the iteration that fetches 0x0000 halts and leaves registers,
\* memory, stack and stack pointer as they were; the program counter is left
\* two past the halt opcode.
C7_HaltKeepsAllButPosition ==
    (Executed /\ opcode = 0) =>
        /\ state = "Halted"
        /\ panic = NoPanic
        /\ register = pre.register
        /\ memory = pre.memory
        /\ stack = pre.stack
        /\ stack_pointer = pre.stack_pointer
        /\ position_in_memory = pre.position_in_memory + 2

\* a halt after the registers and the stack were put to use
C7_HaltedAfterWork ==
    /\ state = "Halted" /\ opcode = 0 /\ Executed
    /\ stack_pointer > 0
    /\ register[15] = 1

\* C8 as stated: an opcode outside the supported set ends the run with the
\* unsupported-opcode panic naming it, with registers, stack, stack pointer
\* and program counter as they were.
C8_UnsupportedChangesNothing ==
    (Executed /\ ~Supported(opcode)) =>
        /\ state = "Panicked"
        /\ panic = NotYetImplemented(opcode)
        /\ register = pre.register
        /\ stack = pre.stack
        /\ stack_pointer = pre.stack_pointer
        /\ position_in_memory = pre.position_in_memory

\* C8 amended: as stated, but the program counter is left two past the
\* unsupported opcode.
C8_UnsupportedKeepsAllButPosition ==
    (Executed /\ ~Supported(opcode)) =>
        /\ state = "Panicked"
        /\ panic = NotYetImplemented(opcode)
        /\ register = pre.register
        /\ stack = pre.stack
        /\ stack_pointer = pre.stack_pointer
        /\ position_in_memory = pre.position_in_memory + 2

\* 0x1234 fetched
C8_Fetched1234 == Executed /\ opcode = 4660 /\ state = "Panicked"

\* C9: an iteration that starts with the program counter p at 4096 or more,
\* or with p + 1 at 4096 or more, fetches nothing and ends the run with the
\* out-of-bounds panic; an iteration that starts lower never does.
C9_FetchBoundsChecked ==
    arm # "none" =>
        IF pre.position_in_memory >= MemoryLen \/ pre.position_in_memory + 1 >= MemoryLen
        THEN /\ arm = "fault"
             /\ state = "Panicked"
             /\ panic[1] = "index out of bounds" /\ panic[2] = MemoryLen
             /\ panic[3] >= MemoryLen
             /\ opcode = pre.opcode
             /\ position_in_memory = pre.position_in_memory
        ELSE arm # "fault"

\* the fetch at 4095, reached by Call 0x2FFF
C9_FetchAtLastByte ==
    /\ arm = "fault" /\ pre.position_in_memory = MemoryLen - 1
    /\ pre.opcode = 12287

\* C10: a run that ended in a panic has the registers, the stack and the
\* stack pointer of the head of the failing iteration, and a stack pointer
\* within 0..16.
C10_PanicKeepsState ==
    state = "Panicked" =>
        /\ register = pre.register
        /\ stack = pre.stack
        /\ stack_pointer = pre.stack_pointer
        /\ stack_pointer \in 0..StackLen

\* a Call that failed on a full stack
C10_PanickedOnFullStack ==
    /\ state = "Panicked" /\ arm = "call"
    /\ stack_pointer = StackLen

----------------------------------------------------------------------------
(* Properties of the decoder, over every 16-bit opcode.                    *)

\* C11: every fetched opcode decodes to class = bits 15-12, x = bits 11-8,
\* y = bits 7-4, d = bits 3-0 and nnn = bits 11-0, each nibble in 0..15, so
\* that the fields put back in place give the opcode; 0x8014 decodes to
\* (8, 0, 1, 4) and 0x2200 to class 2 with nnn 0x200; a Call lands on nnn.
C11_DecoderBitExact ==
    /\ Executed =>
        LET f == Decode(opcode) IN
        /\ f.c \in 0..15 /\ f.x \in 0..15 /\ f.y \in 0..15 /\ f.d \in 0..15
        /\ f.c = opcode \div 4096
        /\ f.x = (opcode \div 256) % 16
        /\ f.y = (opcode \div 16) % 16
        /\ f.d = opcode % 16
        /\ f.nnn = opcode % 4096
        /\ opcode = f.c * 4096 + f.x * 256 + f.y * 16 + f.d
        /\ f.nnn = f.x * 256 + f.y * 16 + f.d
    /\ (arm = "call" /\ state = "Running") => position_in_memory = opcode % 4096
    /\ (arm = "add_xy" /\ AddX # 15) =>
          register[AddX] = (pre.register[AddX] + pre.register[AddY]) % 256
    /\ Decode(32788) = [c |-> 8, x |-> 0, y |-> 1, d |-> 4, nnn |-> 20]
    /\ Decode(8704).c = 2 /\ Decode(8704).nnn = 512

\* 0x2200 fetched and the call landed on 0x200
C11_Called0x200 ==
    /\ arm = "call" /\ opcode = 8704 /\ position_in_memory = 512
    /\ state = "Running"

----------------------------------------------------------------------------
(* The add program of main.rs.                                             *)

\* C12: started on the four adds 0x8014, 0x8024, 0x8034, 0x8044 at addresses
\* 0..7 with registers 5, 10, 10, 10, 30, program counter 0 and an empty
\* stack, run halts without a panic, with register[0] = 65 and
\* register[0xF] = 0.
C12_MainProgramAddsTo65 ==
    (memory = MainMemory /\ register = MainRegisters /\ arm = "none"
        /\ position_in_memory = 0 /\ stack_pointer = 0)
    ~> (state = "Halted" /\ panic = NoPanic /\ register[0] = 65 /\ register[15] = 0)

\* the add program has halted, four adds and one halt after its start
C12_MainProgramHalted ==
    /\ memory = MainMemory /\ state = "Halted"
    /\ register[0] = 65 /\ position_in_memory = 10

----------------------------------------------------------------------------
(* Alignment of the program counter.                                       *)

\* the program counter and every saved return address are even
EvenAligned ==
    /\ position_in_memory % 2 = 0
    /\ \A i \in 0..(StackLen - 1) : i < stack_pointer => stack[i] % 2 = 0

\* C13 as stated: in every Running state reached by at least one iteration
\* the program counter is even. (A run started on an odd address takes no
\* iteration that leaves it Running: the start addresses of Init that are odd
\* lie at the end of memory and fail their first fetch.)
C13_PositionAlwaysEven ==
    (state = "Running" /\ arm # "none") => position_in_memory % 2 = 0

\* C13 amended: an iteration that starts with the program counter and the
\* saved return addresses even leaves them even, unless it is a Call whose
\* target nnn is odd.
C13_EvenUnlessOddCall ==
    [][(EvenAligned /\ ~(arm' = "call" /\ opcode' % 2 = 1)) => EvenAligned']_vars

\* a Return to an even address with a call still outstanding
C13_EvenAfterReturn ==
    /\ arm = "ret" /\ state = "Running" /\ EvenAligned
    /\ stack_pointer > 0 /\ position_in_memory > 0

----------------------------------------------------------------------------
(* The memory image and the fetch.                                         *)

\* C14: no iteration of run, whichever arm it takes and whether or not it
\* panics, changes a cell of memory.
C14_MemoryImmutable == [][memory' = memory]_vars

\* a run that called, added with carry and stopped, on the memory it started on
C14_StoppedOnLoadedMemory ==
    /\ state # "Running" /\ arm # "fault"
    /\ stack_pointer > 0 /\ register[15] = 1
    /\ memory = pre.memory /\ MemAt(memory, 0) \div 16 = 2

\* C15: the opcode an iteration fetches at p, with p + 1 < 4096, is the byte
\* at p times 256 plus the byte at p + 1.
C15_FetchBigEndian ==
    Executed =>
        /\ pre.position_in_memory + 1 < MemoryLen
        /\ opcode = MemAt(pre.memory, pre.position_in_memory) * 256
                    + MemAt(pre.memory, pre.position_in_memory + 1)
        /\ opcode \in 0..65535

\* 0xABCD fetched from the bytes 0xAB, 0xCD at address 0
C15_FetchedABCD ==
    /\ Executed /\ opcode = 43981 /\ pre.position_in_memory = 0
    /\ MemAt(memory, 0) = 171 /\ MemAt(memory, 1) = 205

----------------------------------------------------------------------------
(* The call and return arms.                                               *)

\* C16: a Call fetched at p with depth s < 16 stores p + 2, the position
\* already advanced, at stack[s], makes the depth s + 1 and the program
\* counter nnn, and leaves every other stack entry as it was.
C16_CallPushesAdvancedPosition ==
    (arm = "call" /\ pre.stack_pointer < StackLen) =>
        LET s == pre.stack_pointer IN
        /\ state = "Running"
        /\ stack[s] = pre.position_in_memory + 2
        /\ stack_pointer = s + 1
        /\ position_in_memory = opcode % 4096
        /\ \A i \in 0..(StackLen - 1) : i # s => stack[i] = pre.stack[i]

\* a third nested Call, fetched past address 0
C16_ThirdNestedCall ==
    /\ arm = "call" /\ state = "Running"
    /\ stack_pointer = 3 /\ pre.position_in_memory > 0
    /\ stack[2] = pre.position_in_memory + 2

----------------------------------------------------------------------------
(* The dispatcher.                                                         *)

\* C17: a fetched opcode escapes the unsupported-opcode failure if and only
\* if it is 0x0000, 0x00EE, 0x2NNN or 0x8XY4; every other opcode, 0x00E0 and
\* 0x8XYd with d # 4 included, takes the unimplemented arm.
C17_ExactlyFourShapes ==
    Executed =>
        /\ (arm # "todo") <=> Supported(opcode)
        /\ (arm = "todo") <=> (panic = NotYetImplemented(opcode))
        /\ (opcode = 0) <=> (arm = "halt")
        /\ (opcode = 238) <=> (arm = "ret")
        /\ (opcode \in 8192..12287) <=> (arm = "call")
        /\ (opcode \in 32768..36863 /\ opcode % 16 = 4) <=> (arm = "add_xy")

\* 0x00E0 fetched and found unimplemented
C17_Fetched00E0 ==
    /\ arm = "todo" /\ opcode = 224
    /\ state = "Panicked" /\ panic = NotYetImplemented(224)

----------------------------------------------------------------------------
(* How run ends.                                                           *)

\* C18 as stated: the loop leaves Running only by dispatching 0x0000, and
\* no step is taken from Halted.
C18_HaltSoleExit ==
    [][/\ state # "Halted"
       /\ (state = "Running" /\ state' # "Running") =>
              (state' = "Halted" /\ arm' = "halt" /\ opcode' = 0)]_vars

\* C18 amended: run returns, entering Halted, only by dispatching 0x0000;
\* the one other way out of Running is a panic; and no step is taken once
\* run has returned or panicked.
C18_HaltSoleNormalExit ==
    [][/\ state = "Running"
       /\ (state' = "Halted") <=> (arm' = "halt" /\ opcode' = 0)
       /\ (state' = "Halted") => panic' = NoPanic
       /\ (state' # "Running") =>
              (state' = "Halted" \/ (state' = "Panicked" /\ panic' # NoPanic))
       /\ (state' = "Running") => panic' = NoPanic]_vars

\* halted inside a subroutine, the call still on the stack
C18_HaltedInSubroutine ==
    /\ state = "Halted" /\ arm = "halt" /\ opcode = 0
    /\ stack_pointer = 1 /\ panic = NoPanic

----------------------------------------------------------------------------
(* Termination.                                                            *)

\* C19: every run, from any loaded program on an empty stack, reaches Halted
\* or a panic after finitely many iterations: no program of halts, returns,
\* calls and adds keeps the loop running forever.
C19_EveryRunTerminates == <>(state # "Running")

\* a subroutine entered at 2 returned to 2 and ran into its own return on
\* the stack it had emptied
C19_SecondReturnStopped ==
    /\ state = "Panicked" /\ arm = "ret" /\ panic = StackOverflowMsg
    /\ pre.opcode = RetOp /\ pre.position_in_memory = 2
    /\ stack_pointer = 0 /\ stack[0] = 2

----------------------------------------------------------------------------
(* Nesting of calls.                                                       *)

\* C20: every return that goes through sets the program counter to the call
\* site + 2 of the newest call not yet returned from, and the stack pointer
\* always counts the calls in progress: n nested calls and n returns give
\* back the n return addresses newest first and leave the stack empty.
C20_ReturnsLastInFirstOut ==
    [][/\ stack_pointer' = Len(return_addresses')
       /\ (arm' = "ret" /\ state' = "Running") =>
              /\ return_addresses # <<>>
              /\ position_in_memory' = return_addresses[Len(return_addresses)]
              /\ Len(return_addresses') = Len(return_addresses) - 1]_vars

\* calls at 0 and 4 returned to 6 and then to 2, the stack empty again
C20_TwoReturnsInReverse ==
    /\ arm = "ret" /\ state = "Running"
    /\ pre.opcode = RetOp /\ pre.position_in_memory = 6
    /\ position_in_memory = 2
    /\ stack_pointer = 0 /\ return_addresses = <<>>
    /\ stack[0] = 2 /\ stack[1] = 6

----------------------------------------------------------------------------
(* What each instruction leaves alone.                                     *)

\* C21: an add of registers x and y changes no register other than x and
\* 0xF, leaves the stack and the stack pointer as they were and moves the
\* program counter on by 2; a call and a return change no register.
C21_EffectsConfined ==
    /\ arm = "add_xy" =>
          /\ \A i \in 0..(RegisterLen - 1) :
                 (i # AddX /\ i # 15) => register[i] = pre.register[i]
          /\ stack = pre.stack
          /\ stack_pointer = pre.stack_pointer
          /\ position_in_memory = pre.position_in_memory + 2
    /\ arm \in {"call", "ret"} => register = pre.register

\* 0x8014 executed inside a subroutine: register 0 changed, register 1 kept
C21_AddedInSubroutine ==
    /\ arm = "add_xy" /\ AddX = 0 /\ AddY = 1
    /\ register[0] # pre.register[0]
    /\ register[1] = 10 /\ pre.register[1] = 10
    /\ stack_pointer > 0 /\ stack[0] # 0

====
